---- MODULE Spec2Model ----
(***************************************************************************)
(* KMeansLoss (pydbm/clustering/computableclusteringloss/k_means_loss.pyx) *)
(* as a state machine: instances holding the field __weight, a heap of     *)
(* ndarray buffers, and callers executing compute_clustering_loss.         *)
(*                                                                         *)
(* Numbers are binary floating point values with a Prec-bit significand,   *)
(* round-to-nearest-even, NaN and the two infinities (DOUBLE_t with the    *)
(* significand narrowed from 53 bits; the exponent range is not bounded,   *)
(* so nothing overflows or underflows, and zero carries no sign).          *)
(***************************************************************************)
EXTENDS Integers, Sequences, FiniteSets, TLC

\* Bounds of the model.
Prec == 5
MaxN == 3
MaxK == 2
MaxD == 2
MaxM == 2

----------------------------------------------------------------------------
\* Floating point (np.float64, narrowed).

RECURSIVE Pow2(_)
Pow2(k) == IF k <= 0 THEN 1 ELSE 2 * Pow2(k - 1)

RECURSIVE BitLen(_)
BitLen(n) == IF n <= 0 THEN 0 ELSE 1 + BitLen(n \div 2)

Abs(i) == IF i < 0 THEN -i ELSE i

Sgn(i) == IF i < 0 THEN -1 ELSE IF i > 0 THEN 1 ELSE 0

NaN == [c |-> "nan", m |-> 0, e |-> 0]

Inf(s) == [c |-> "inf", m |-> s, e |-> 0]

Zero == [c |-> "num", m |-> 0, e |-> 0]

IsNaN(x) == x.c = "nan"

IsInf(x) == x.c = "inf"

IsFinite(x) == x.c = "num"

\* The float nearest to s * n * 2^e (n >= 0; sticky: a nonzero remainder below
\* n's last bit), ties to even.
\* Operators take the values they build on as parameters: a parameter is
\* evaluated once, however often its operator uses it.
Normal(s, q, e) ==
    IF q = Pow2(Prec) THEN [c |-> "num", m |-> s * Pow2(Prec - 1), e |-> e + 1]
    ELSE [c |-> "num", m |-> s * q, e |-> e]

RoundUp(q, r, half, sticky) ==
    \/ r > half
    \/ r = half /\ sticky
    \/ r = half /\ ~sticky /\ q % 2 = 1

RoundAt(s, n, e, sticky, bl) ==
    IF bl <= Prec
    THEN [c |-> "num", m |-> s * n * Pow2(Prec - bl), e |-> e - (Prec - bl)]
    ELSE Normal(s,
                (n \div Pow2(bl - Prec))
                  + (IF RoundUp(n \div Pow2(bl - Prec), n % Pow2(bl - Prec),
                                Pow2(bl - Prec - 1), sticky) THEN 1 ELSE 0),
                e + (bl - Prec))

Round(s, n, e, sticky) == IF n = 0 THEN Zero ELSE RoundAt(s, n, e, sticky, BitLen(n))

\* float(i) of a Python int.
FromInt(i) == Round(Sgn(i), Abs(i), 0, FALSE)

FNeg(x) == [x EXCEPT !.m = -x.m]

FMul(x, y) ==
    IF IsNaN(x) \/ IsNaN(y) THEN NaN
    ELSE IF IsInf(x) \/ IsInf(y)
         THEN IF x.m = 0 \/ y.m = 0 THEN NaN ELSE Inf(Sgn(x.m) * Sgn(y.m))
         ELSE Round(Sgn(x.m) * Sgn(y.m), Abs(x.m) * Abs(y.m), x.e + y.e, FALSE)

FAdd(x, y) ==
    IF IsNaN(x) \/ IsNaN(y) THEN NaN
    ELSE IF IsInf(x) /\ IsInf(y) THEN (IF x.m = y.m THEN x ELSE NaN)
    ELSE IF IsInf(x) THEN x
    ELSE IF IsInf(y) THEN y
    ELSE IF x.m = 0 THEN y
    ELSE IF y.m = 0 THEN x
    ELSE LET e == IF x.e < y.e THEN x.e ELSE y.e
             n == x.m * Pow2(x.e - e) + y.m * Pow2(y.e - e)
         IN Round(Sgn(n), Abs(n), e, FALSE)

FDiv(x, y) ==
    IF IsNaN(x) \/ IsNaN(y) THEN NaN
    ELSE IF IsInf(x) THEN (IF IsInf(y) THEN NaN
                           ELSE Inf(x.m * (IF y.m < 0 THEN -1 ELSE 1)))
    ELSE IF IsInf(y) THEN Zero
    ELSE IF y.m = 0 THEN (IF x.m = 0 THEN NaN ELSE Inf(Sgn(x.m)))
    ELSE LET a == Abs(x.m) * Pow2(Prec + 2)
             b == Abs(y.m)
         IN Round(Sgn(x.m) * Sgn(y.m), a \div b, x.e - y.e - (Prec + 2), a % b # 0)

\* x > y of IEEE 754: false when either is NaN.
FGt(x, y) ==
    IF IsNaN(x) \/ IsNaN(y) THEN FALSE
    ELSE IF IsInf(x) THEN x.m = 1 /\ ~(IsInf(y) /\ y.m = 1)
    ELSE IF IsInf(y) THEN y.m = -1
    ELSE IF x.m = 0 \/ y.m = 0 THEN x.m > y.m
    ELSE IF Sgn(x.m) # Sgn(y.m) THEN x.m > y.m
    ELSE LET e == IF x.e < y.e THEN x.e ELSE y.e
         IN x.m * Pow2(x.e - e) > y.m * Pow2(y.e - e)

One == FromInt(1)

----------------------------------------------------------------------------
\* ndarrays: a reference [buf, shape] into the heap, which maps a buffer to its
\* elements in row-major order.  Indices below are 1-based (the code's i is
\* i + 1 here); labels stored in arrays keep the code's 0-based values.

VARIABLES weight, heap, call

vars == <<weight, heap, call>>

NoneVal == [buf |-> 0, shape |-> <<>>]

Ref(b, sh) == [buf |-> b, shape |-> sh]

RECURSIVE Size(_)
Size(shape) == IF shape = <<>> THEN 1 ELSE Head(shape) * Size(Tail(shape))

Idx2(sh, i, j) == (i - 1) * sh[2] + j

Idx3(sh, i, j, k) == ((i - 1) * sh[2] + (j - 1)) * sh[3] + k

\* The lowest free buffer.
Alloc(h) ==
    CHOOSE b \in 1..(Cardinality(DOMAIN h) + 1) :
        b \notin DOMAIN h /\ \A x \in 1..(b - 1) : x \in DOMAIN h

Put(h, b, data) == [x \in (DOMAIN h) \cup {b} |-> IF x = b THEN data ELSE h[x]]

\* A freshly allocated array.
NewAt(h, b, shape, data) == [heap |-> Put(h, b, data), arr |-> Ref(b, shape), exc |-> ""]

New(h, shape, data) == NewAt(h, Alloc(h), shape, data)

RECURSIVE SumTo(_, _)
SumTo(s, n) == IF n = 0 THEN Zero ELSE FAdd(SumTo(s, n - 1), s[n])

\* Variants of the mean of one slice, none of them numpy's: the mean of the
\* entries that are neither NaN nor 0; the plain mean, which a NaN poisons;
\* the sum of the entries that are not NaN over the slice's full length; and
\* their sum, undivided.
MeanOfNonZero(s) ==
    FDiv(SumTo([t \in DOMAIN s |-> IF IsNaN(s[t]) THEN Zero ELSE s[t]], Len(s)),
         FromInt(Cardinality({t \in DOMAIN s : ~IsNaN(s[t]) /\ s[t] # Zero})))

PlainMean(s) == FDiv(SumTo(s, Len(s)), FromInt(Len(s)))

MeanOverLength(s) ==
    FDiv(SumTo([t \in DOMAIN s |-> IF IsNaN(s[t]) THEN Zero ELSE s[t]], Len(s)),
         FromInt(Len(s)))

NanSumSeq(s) == SumTo([t \in DOMAIN s |-> IF IsNaN(s[t]) THEN Zero ELSE s[t]], Len(s))

\* np.nanmean of one slice: NaN replaced by 0, summed, divided by the number of
\* entries that are not NaN (0/0 = NaN for a slice that is all NaN).
NanMeanSeq(s) ==
    LET cnt == Cardinality({t \in DOMAIN s : ~IsNaN(s[t])})
        arr == [t \in DOMAIN s |-> IF IsNaN(s[t]) THEN Zero ELSE s[t]]
    IN FDiv(SumTo(arr, Len(arr)), FromInt(cnt))

\* A nanmean that replaces the NaN of its argument by 0 in place before it
\* averages (nan_to_num without a copy), not numpy's.
np_nanmean_in_place(h, a, axis) ==
    LET sh  == a.shape
        out == IF axis = 2 THEN <<sh[1], sh[2]>> ELSE <<sh[1], sh[3]>>
        len == IF axis = 2 THEN sh[3] ELSE sh[2]
        cell(i, j) == [t \in 1..len |->
                          IF axis = 2 THEN h[a.buf][Idx3(sh, i, j, t)]
                                      ELSE h[a.buf][Idx3(sh, i, t, j)]]
    IN New([h EXCEPT ![a.buf] = [x \in DOMAIN h[a.buf] |->
                                    IF IsNaN(h[a.buf][x]) THEN Zero ELSE h[a.buf][x]]],
           out, [x \in 1..(out[1] * out[2]) |->
                    NanMeanSeq(cell(((x - 1) \div out[2]) + 1, ((x - 1) % out[2]) + 1))])

\* np.nanmean(a, axis) of a 3-d array, axis 1 or 2 (0-based, as in the code).
np_nanmean(h, a, axis) ==
    LET sh  == a.shape
        out == IF axis = 2 THEN <<sh[1], sh[2]>> ELSE <<sh[1], sh[3]>>
        len == IF axis = 2 THEN sh[3] ELSE sh[2]
        cell(i, j) == [t \in 1..len |->
                          IF axis = 2 THEN h[a.buf][Idx3(sh, i, j, t)]
                                      ELSE h[a.buf][Idx3(sh, i, t, j)]]
    IN New(h, out, [x \in 1..(out[1] * out[2]) |->
                       NanMeanSeq(cell(((x - 1) \div out[2]) + 1, ((x - 1) % out[2]) + 1))])

\* A scan that replaces the running maximum on row[i] > it alone, so that a
\* NaN never wins, not numpy's.
RECURSIVE ArgMaxByGreater(_, _, _)
ArgMaxByGreater(row, i, best) ==
    IF i > Len(row) THEN best - 1
    ELSE ArgMaxByGreater(row, i + 1, IF FGt(row[i], row[best]) THEN i ELSE best)

\* numpy's argmax scan of one row: the first NaN if there is one, else the
\* first maximum; best is the index of the running maximum.
RECURSIVE ArgMaxScan(_, _, _)
ArgMaxScan(row, i, best) ==
    IF i > Len(row) \/ IsNaN(row[best]) THEN best - 1
    ELSE IF IsNaN(row[i]) \/ FGt(row[i], row[best]) THEN ArgMaxScan(row, i + 1, i)
    ELSE ArgMaxScan(row, i + 1, best)

ArgMax(row) == ArgMaxScan(row, 2, 1)

\* a.argmax(axis=1) of a 2-d array.
np_argmax(h, a) ==
    New(h, <<a.shape[1]>>,
        [i \in 1..a.shape[1] |->
            ArgMax([j \in 1..a.shape[2] |-> h[a.buf][Idx2(a.shape, i, j)]])])

\* a.reshape(shape), np.expand_dims: a view of the same buffer.
reshape(a, shape) == Ref(a.buf, shape)

\* q_arr.reshape((q_arr.shape[0], q_arr.shape[1])).argmax(axis=1)
reshape_argmax(r) == np_argmax(r.heap, reshape(r.arr, <<r.arr.shape[1], r.arr.shape[2]>>))

assign_label(h, q_arr) ==
    reshape_argmax(IF q_arr.shape[3] > 1 THEN np_nanmean(h, q_arr, 2)
                   ELSE [heap |-> h, arr |-> q_arr, exc |-> ""])

\* np.ones in the place of np.zeros.
np_ones(h, shape) == New(h, shape, [x \in 1..Size(shape) |-> One])

np_zeros(h, shape) == New(h, shape, [x \in 1..Size(shape) |-> Zero])

\* for i in range(label_arr.shape[0]): t_hot_arr[i, label_arr[i]] = 1
RECURSIVE FillOneHot(_, _, _, _)
FillOneHot(h, t, label, i) ==
    IF i >= label.shape[1] THEN [heap |-> h, arr |-> t, exc |-> ""]
    ELSE IF h[label.buf][i + 1] >= t.shape[2] THEN [heap |-> h, arr |-> t, exc |-> "IndexError"]
    ELSE FillOneHot([h EXCEPT ![t.buf][Idx2(t.shape, i + 1, h[label.buf][i + 1] + 1)] = One],
                    t, label, i + 1)

astype(h, a) == New(h, a.shape, h[a.buf])

\* np.square(a, out=a): the squares written over a.
np_square_out(h, a) ==
    [heap |-> [h EXCEPT ![a.buf] = [x \in 1..Size(a.shape) |-> FMul(h[a.buf][x], h[a.buf][x])]],
     arr |-> a, exc |-> ""]

np_square(h, a) == New(h, a.shape, [x \in 1..Size(a.shape) |-> FMul(h[a.buf][x], h[a.buf][x])])

Broadcastable(s1, s2) == \A i \in 1..3 : s1[i] = s2[i] \/ s1[i] = 1 \/ s2[i] = 1

BShape(s1, s2) == [i \in 1..3 |-> IF s1[i] = 1 THEN s2[i] ELSE s1[i]]

\* The element of a that broadcasts to position (i, j, k).
BAt(h, a, i, j, k) ==
    h[a.buf][Idx3(a.shape, IF a.shape[1] = 1 THEN 1 ELSE i,
                           IF a.shape[2] = 1 THEN 1 ELSE j,
                           IF a.shape[3] = 1 THEN 1 ELSE k)]

\* a * b of two 3-d arrays.
np_multiply(h, a, b) ==
    IF ~Broadcastable(a.shape, b.shape)
    THEN [heap |-> h, arr |-> NoneVal, exc |-> "ValueError"]
    ELSE LET sh == BShape(a.shape, b.shape)
         IN New(h, sh, [x \in 1..Size(sh) |->
                 LET i == ((x - 1) \div (sh[2] * sh[3])) + 1
                     j == (((x - 1) \div sh[3]) % sh[2]) + 1
                     k == ((x - 1) % sh[3]) + 1
                 IN FMul(BAt(h, a, i, j, k), BAt(h, b, i, j, k))])

\* a + w in the place of a * w.
np_add(h, a, w) == New(h, a.shape, [x \in 1..Size(a.shape) |-> FAdd(h[a.buf][x], w)])

\* a * w, w a scalar.
np_scale(h, a, w) == New(h, a.shape, [x \in 1..Size(a.shape) |-> FMul(h[a.buf][x], w)])

----------------------------------------------------------------------------
\* A caller's activation of compute_clustering_loss: the arguments, the
\* locals, the line it is at and what it returned or raised.

ArgNames == {"observed_arr", "reconstructed_arr", "feature_arr", "delta_arr", "q_arr", "p_arr"}

LocalNames == {"label_arr", "t_hot_arr", "delta_kmeans_arr", "delta_kmeans_z_arr"}

IdleFrame ==
    [pc |-> "idle", self |-> 0,
     observed_arr |-> NoneVal, reconstructed_arr |-> NoneVal, feature_arr |-> NoneVal,
     delta_arr |-> NoneVal, q_arr |-> NoneVal, p_arr |-> NoneVal,
     label_arr |-> NoneVal, t_hot_arr |-> NoneVal, delta_kmeans_arr |-> NoneVal,
     delta_kmeans_z_arr |-> NoneVal, ret |-> <<>>, exc |-> ""]

\* The buffers an activation refers to.
Refs(f) ==
    ({f[x].buf : x \in ArgNames \cup LocalNames} \cup {f.ret[i].buf : i \in DOMAIN f.ret}) \ {0}

Restrict(h, keep) == [b \in (DOMAIN h) \cap keep |-> h[b]]

Raise(h, f, e) == [heap |-> h, frame |-> [f EXCEPT !.pc = "raised", !.exc = e]]

\* x = <the array r>, or the exception r: then the statement at line next.
Assign(f, x, r, next) ==
    IF r.exc # "" THEN Raise(r.heap, f, r.exc)
    ELSE [heap |-> r.heap, frame |-> [f EXCEPT ![x] = r.arr, !.pc = next]]

\* t_hot_arr.astype(np.float) * np.square(delta_arr), m the astype's result.
product(m, sq) == np_multiply(sq.heap, m.arr, sq.arr)

masked_square(m, delta_arr) == product(m, np_square(m.heap, delta_arr))

\* One statement of compute_clustering_loss, w being self.__weight.
Step(h, w, f) ==
    CASE f.pc = "L55" -> Assign(f, "label_arr", assign_label(h, f.q_arr), "L56")
      [] f.pc = "L56" ->
           Assign(f, "t_hot_arr",
                  np_zeros(h, <<f.label_arr.shape[1], f.delta_arr.shape[2]>>), "L57")
      [] f.pc = "L57" ->
           Assign(f, "t_hot_arr", FillOneHot(h, f.t_hot_arr, f.label_arr, 0), "L59")
      [] f.pc = "L59" ->
           [heap |-> h,
            frame |-> [f EXCEPT !.t_hot_arr = reshape(@, <<@.shape[1], @.shape[2], 1>>),
                                !.pc = "L60"]]
      [] f.pc = "L60" ->
           Assign(f, "delta_kmeans_arr",
                  masked_square(astype(h, f.t_hot_arr), f.delta_arr), "L61")
      [] f.pc = "L61" ->
           Assign(f, "delta_kmeans_z_arr", np_nanmean(h, f.delta_kmeans_arr, 1), "L62")
      [] f.pc = "L62" ->
           Assign(f, "delta_kmeans_z_arr", np_scale(h, f.delta_kmeans_z_arr, w), "L63")
      [] f.pc = "L63" ->
           [heap |-> h,
            frame |-> [f EXCEPT !.ret = <<f.delta_kmeans_z_arr, NoneVal, NoneVal>>,
                                !.pc = "returned"]]

\* The release of every buffer nothing refers to any more (keep: the buffers
\* other activations refer to).
Collect(r, keep) == [heap |-> Restrict(r.heap, keep \cup Refs(r.frame)), frame |-> r.frame]

StepGC(h, w, f, keep) == Collect(Step(h, w, f), keep)

Done(f) == f.pc \in {"returned", "raised"}

\* compute_clustering_loss from its first statement to its return or raise.
RECURSIVE RunToEnd(_, _, _, _)
RECURSIVE RunOn(_, _, _)
RunToEnd(h, w, f, keep) ==
    IF Done(f) THEN [heap |-> h, frame |-> f] ELSE RunOn(StepGC(h, w, f, keep), w, keep)

RunOn(r, w, keep) == RunToEnd(r.heap, w, r.frame, keep)

----------------------------------------------------------------------------
\* The arrays callers pass.

Ratio(a, b) == FDiv(FromInt(a), FromInt(b))

DeltaPool == <<1, 3, 2, 5, -4, 7>>

\* delta_arr of shape sh: DeltaPool's values in row-major order, the entries
\* of sample n0 and feature d0 replaced as ov says, cluster by cluster.
DeltaData(sh, n0, d0, ov) ==
    [x \in 1..Size(sh) |->
        LET i == ((x - 1) \div (sh[2] * sh[3])) + 1
            j == (((x - 1) \div sh[3]) % sh[2]) + 1
            k == ((x - 1) % sh[3]) + 1
            o == IF i = n0 /\ k = d0 THEN ov[j] ELSE "keep"
        IN CASE o = "nan"  -> NaN
             [] o = "inf"  -> Inf(-1)
             [] o = "zero" -> Zero
             [] OTHER      -> FromInt(DeltaPool[((x - 1) % Len(DeltaPool)) + 1])]

DeltaOverrides == {"keep", "nan", "inf", "zero"}

\* q_arr of shape sh: estimate t of sample i peaks at cluster (i - 1 + r +
\* (t - 1) * s) mod K, with 0.9 against 0.1 or 0.8 against 0.2; the cells of
\* sample n0 are replaced as ov says, cluster by cluster.
QData(sh, r, s, n0, ov) ==
    [x \in 1..Size(sh) |->
        LET i == ((x - 1) \div (sh[2] * sh[3])) + 1
            j == (((x - 1) \div sh[3]) % sh[2]) + 1
            t == ((x - 1) % sh[3]) + 1
            peak   == ((i - 1 + r + (t - 1) * s) % sh[2]) + 1
            strong == (i + t) % 2 = 0
            o == IF i = n0 THEN ov[j] ELSE "keep"
        IN CASE o = "nan"            -> NaN
             [] o = "nan1" /\ t = 1  -> NaN
             [] o = "half"           -> Ratio(1, 2)
             [] OTHER -> IF j = peak THEN (IF strong THEN Ratio(9, 10) ELSE Ratio(8, 10))
                         ELSE (IF strong THEN Ratio(1, 10) ELSE Ratio(2, 10))]

QOverrides == {"keep", "nan", "nan1", "half"}

Keep(k) == [j \in 1..k |-> "keep"]

\* The arrays this variant does not read: of the batch's shape (u = 0) or of
\* another shape (u = 1).
UnusedShape(u, n, k) == IF u = 0 THEN <<n, k>> ELSE <<n + 1, k + 1>>

UnusedData(u, n, k) == [x \in 1..Size(UnusedShape(u, n, k)) |-> IF u = 0 THEN One ELSE NaN]

\* The call: the caller's six arrays are put on the heap and the activation
\* stands at the first statement.
Pass(r, x, shape, data) == Assign(r.frame, x, New(r.heap, shape, data), "L55")

Enter(h, inst, dsh, ddata, qsh, qdata, u) ==
    Pass(Pass(Pass(Pass(Pass(Pass([heap |-> h, frame |-> [IdleFrame EXCEPT !.self = inst]],
        "observed_arr", UnusedShape(u, dsh[1], dsh[3]), UnusedData(u, dsh[1], dsh[3])),
        "reconstructed_arr", UnusedShape(u, dsh[1], dsh[3]), UnusedData(u, dsh[1], dsh[3])),
        "feature_arr", UnusedShape(u, dsh[1], dsh[3]), UnusedData(u, dsh[1], dsh[3])),
        "delta_arr", dsh, ddata),
        "q_arr", qsh, qdata),
        "p_arr", UnusedShape(u, dsh[1], dsh[2]), UnusedData(u, dsh[1], dsh[2]))

\* The buffers the other activations refer to.
Others(t) == UNION {Refs(call[o]) : o \in (DOMAIN call) \ {t}}

----------------------------------------------------------------------------
\* One instance, one caller: calls one after another.

Weights == {Ratio(1, 8), One}

Init ==
    /\ weight \in [{1} -> Weights]
    /\ heap = <<>>
    /\ call = [t \in {1} |-> IdleFrame]

\* Caller t's activation and the heap become e's.
Entered(t, e) ==
    /\ heap' = e.heap
    /\ call' = [call EXCEPT ![t] = e.frame]
    /\ UNCHANGED weight

\* A call with consistent shapes, one estimate per cell of q_arr, and some
\* entries of delta_arr undefined, infinite or zero.
CallDelta(t) ==
    /\ call[t].pc = "idle"
    /\ \E n \in 1..MaxN, k \in 1..MaxK, d \in 1..MaxD :
       \E r \in 0..(k - 1), n0 \in {1, n}, d0 \in {1, d}, ov \in [1..k -> DeltaOverrides] :
          Entered(t, Enter(heap, 1, <<n, k, d>>, DeltaData(<<n, k, d>>, n0, d0, ov),
                           <<n, k, 1>>, QData(<<n, k, 1>>, r, 0, 0, Keep(k)), 0))

\* A call with consistent shapes, one feature, and some cells of q_arr
\* undefined or tied.
CallQ(t) ==
    /\ call[t].pc = "idle"
    /\ \E n \in 1..MaxN, k \in 1..MaxK, m \in 1..MaxM :
       \E r \in 0..(k - 1), s \in 0..(IF m > 1 THEN k - 1 ELSE 0) :
       \E n0 \in {1, n}, ov \in [1..k -> QOverrides] :
          Entered(t, Enter(heap, 1, <<n, k, 1>>, DeltaData(<<n, k, 1>>, 0, 0, Keep(k)),
                           <<n, k, m>>, QData(<<n, k, m>>, r, s, n0, ov), 0))

\* A call whose arrays need not agree on their shapes.
CallAnyShape(t) ==
    /\ call[t].pc = "idle"
    /\ \E nd \in 1..MaxN, kd \in 1..MaxK, d \in 1..MaxD :
       \E nq \in 1..MaxN, kq \in 1..MaxK, m \in 1..MaxM :
       \E r \in 0..(kq - 1), u \in {0, 1} :
          Entered(t, Enter(heap, 1, <<nd, kd, d>>, DeltaData(<<nd, kd, d>>, 0, 0, Keep(kd)),
                           <<nq, kq, m>>, QData(<<nq, kq, m>>, r, 0, 0, Keep(kq)), u))

\* compute_clustering_loss, from the call to its return or raise.
compute_clustering_loss(t) ==
    /\ call[t].pc = "L55"
    /\ Entered(t, RunToEnd(heap, weight[call[t].self], call[t], Others(t)))

\* The caller is done with the result and with its arrays.
Discard(t) ==
    /\ Done(call[t])
    /\ call' = [call EXCEPT ![t] = IdleFrame]
    /\ heap' = Restrict(heap, Others(t))
    /\ UNCHANGED weight

Next ==
    \/ CallDelta(1)
    \/ CallQ(1)
    \/ CallAnyShape(1)
    \/ compute_clustering_loss(1)
    \/ Discard(1)

Spec == Init /\ [][Next]_vars

----------------------------------------------------------------------------
\* Two instances, the second constructed with c times the weight of the
\* first, called with the same arrays.

LinWeights == {Ratio(3, 10), FromInt(3)}

Factors == {FromInt(2), Ratio(1, 2), FromInt(10)}

LinInit ==
    /\ weight \in {<<w, FMul(c, w)>> : w \in LinWeights, c \in Factors}
    /\ heap = <<>>
    /\ call = [t \in {1, 2} |-> IdleFrame]

\* Both instances are handed the arrays of e.
EnteredBoth(e) ==
    /\ heap' = e.heap
    /\ call' = [t \in {1, 2} |-> [e.frame EXCEPT !.self = t]]
    /\ UNCHANGED weight

CallBoth ==
    /\ \A t \in {1, 2} : call[t].pc = "idle"
    /\ \E n \in 1..MaxN, k \in 1..MaxK, d \in 1..MaxD :
       \E r \in 0..(k - 1), ov \in [1..k -> DeltaOverrides] :
          EnteredBoth(Enter(heap, 1, <<n, k, d>>, DeltaData(<<n, k, d>>, 1, 1, ov),
                            <<n, k, 1>>, QData(<<n, k, 1>>, r, 0, 0, Keep(k)), 0))

LinNext ==
    \/ CallBoth
    \/ \E t \in {1, 2} : compute_clustering_loss(t)
    \/ \E t \in {1, 2} : Discard(t)

SpecLin == LinInit /\ [][LinNext]_vars

----------------------------------------------------------------------------
\* One instance, two callers whose calls interleave statement by statement.
\* The callers hold six arrays and pass them to the calls, the same array to
\* both calls included.

HeldArrays ==
    << [shape |-> <<2, 2, 1>>, data |-> DeltaData(<<2, 2, 1>>, 0, 0, Keep(2))],
       [shape |-> <<2, 2, 1>>, data |-> DeltaData(<<2, 2, 1>>, 1, 1, <<"keep", "nan">>)],
       [shape |-> <<2, 2, 1>>, data |-> QData(<<2, 2, 1>>, 1, 0, 0, Keep(2))],
       [shape |-> <<2, 2, 2>>, data |-> QData(<<2, 2, 2>>, 0, 1, 0, Keep(2))],
       [shape |-> UnusedShape(0, 2, 1), data |-> UnusedData(0, 2, 1)],
       [shape |-> UnusedShape(1, 2, 1), data |-> UnusedData(1, 2, 1)] >>

Held == DOMAIN HeldArrays

HeldRef(b) == Ref(b, HeldArrays[b].shape)

ConcInit ==
    /\ weight = <<Ratio(1, 8)>>
    /\ heap = [b \in Held |-> HeldArrays[b].data]
    /\ call = [t \in {1, 2} |-> IdleFrame]

CallHeld(t) ==
    /\ call[t].pc = "idle"
    /\ \E d \in 1..2, q \in 3..4, u \in 5..6 :
          /\ u = q + 2
          /\ d <= q - 2
          /\ call' = [call EXCEPT ![t] = [IdleFrame EXCEPT !.pc = "L55", !.self = 1,
                         !.observed_arr = HeldRef(u), !.reconstructed_arr = HeldRef(u),
                         !.feature_arr = HeldRef(u), !.delta_arr = HeldRef(d),
                         !.q_arr = HeldRef(q), !.p_arr = HeldRef(u)]]
    /\ UNCHANGED <<weight, heap>>

\* Caller t executes its next statement.
Statement(t) ==
    /\ call[t].pc \notin {"idle", "returned", "raised"}
    /\ Entered(t, StepGC(heap, weight[call[t].self], call[t], Others(t) \cup Held))

\* Caller t is done with the result.
Release(t) ==
    /\ Done(call[t])
    /\ call' = [call EXCEPT ![t] = IdleFrame]
    /\ heap' = Restrict(heap, Others(t) \cup Held)
    /\ UNCHANGED weight

ConcNext ==
    \/ \E t \in {1, 2} : CallHeld(t)
    \/ \E t \in {1, 2} : Statement(t)
    \/ \E t \in {1, 2} : Release(t)

SpecConc == ConcInit /\ [][ConcNext]_vars

----------------------------------------------------------------------------
\* What the claims speak of: the caller's activation as it stands.

TheCall == call[1]

AtEnd == Done(TheCall)

Returned == TheCall.pc = "returned"

DShape == TheCall.delta_arr.shape

QShape == TheCall.q_arr.shape

Delta(n, k, d) == heap[TheCall.delta_arr.buf][Idx3(DShape, n, k, d)]

Q(n, k, t) == heap[TheCall.q_arr.buf][Idx3(QShape, n, k, t)]

\* Sample n's label, 0-based as in the code.
Label(n) == heap[TheCall.label_arr.buf][n]

Encoder == TheCall.ret[1]

Enc(n, d) == heap[Encoder.buf][Idx2(Encoder.shape, n, d)]

Mask(n, k) == heap[TheCall.t_hot_arr.buf][Idx3(TheCall.t_hot_arr.shape, n, k, 1)]

\* All six arrays agree on N, K and D.
SameShapes ==
    /\ QShape[1] = DShape[1]
    /\ QShape[2] = DShape[2]
    /\ TheCall.observed_arr.shape = <<DShape[1], DShape[3]>>
    /\ TheCall.reconstructed_arr.shape = <<DShape[1], DShape[3]>>
    /\ TheCall.feature_arr.shape = <<DShape[1], DShape[3]>>
    /\ TheCall.p_arr.shape = <<DShape[1], DShape[2]>>

NoNaNIn(a) == \A x \in 1..Size(a.shape) : ~IsNaN(heap[a.buf][x])

ReturnsTriple ==
    /\ Returned
    /\ Len(TheCall.ret) = 3
    /\ TheCall.ret[2] = NoneVal
    /\ TheCall.ret[3] = NoneVal

\* weight * delta_arr[n][label_n][d]^2 / K, the square divided first.
SquareOverK(n, d) ==
    FMul(FDiv(FMul(Delta(n, Label(n) + 1, d), Delta(n, Label(n) + 1, d)), FromInt(DShape[2])),
         weight[TheCall.self])

AssignedSquareOverK ==
    /\ ReturnsTriple
    /\ Encoder.shape = <<DShape[1], DShape[3]>>
    /\ \A n \in 1..DShape[1], d \in 1..DShape[3] : Enc(n, d) = SquareOverK(n, d)

\* C1 as stated: with consistent shapes and no NaN in delta_arr or q_arr the
\* call returns (E, None, None), E of shape N x D with
\* E[n][d] = weight * delta_arr[n][label_n][d]^2 / K.
C1_AsStated ==
    (AtEnd /\ SameShapes /\ NoNaNIn(TheCall.delta_arr) /\ NoNaNIn(TheCall.q_arr))
        => AssignedSquareOverK

NoInfBesideAssigned ==
    \A n \in 1..DShape[1], k \in 1..DShape[2], d \in 1..DShape[3] :
        k # Label(n) + 1 => ~IsInf(FMul(Delta(n, k, d), Delta(n, k, d)))

\* C1, amended: with consistent shapes, no NaN in delta_arr or q_arr and the
\* square of every entry of delta_arr in a cluster other than the sample's
\* assigned one finite, the call returns (E, None, None), E of shape N x D with
\* E[n][d] = weight * delta_arr[n][label_n][d]^2 / K.
C1_SquareOverK ==
    (AtEnd /\ SameShapes /\ NoNaNIn(TheCall.delta_arr) /\ NoNaNIn(TheCall.q_arr)
           /\ NoInfBesideAssigned)
        => AssignedSquareOverK

\* The example of the specification: N = 2, K = 2, D = 1, weight 1,
\* delta [[[1],[3]],[[2],[5]]], q [[[0.9],[0.1]],[[0.2],[0.8]]]: [0.5, 12.5].
C1_Example ==
    /\ Returned
    /\ weight[1] = One
    /\ DShape = <<2, 2, 1>> /\ QShape = <<2, 2, 1>>
    /\ heap[TheCall.delta_arr.buf] = <<FromInt(1), FromInt(3), FromInt(2), FromInt(5)>>
    /\ heap[TheCall.q_arr.buf] = <<Ratio(9, 10), Ratio(1, 10), Ratio(2, 10), Ratio(8, 10)>>
    /\ heap[Encoder.buf] = <<Ratio(1, 2), Ratio(25, 2)>>

MaskBuilt == Done(TheCall) /\ Len(TheCall.t_hot_arr.shape) = 3

OnesInRow(n) == {k \in 1..TheCall.t_hot_arr.shape[2] : Mask(n, k) = One}

\* C2: the one-hot mask, once built, is N x K x 1 with K delta_arr's cluster
\* count, holds exactly one 1 in each row and 0 elsewhere, N ones in all.
C2_OneHot ==
    MaskBuilt =>
        /\ TheCall.t_hot_arr.shape = <<TheCall.label_arr.shape[1], DShape[2], 1>>
        /\ \A n \in 1..TheCall.t_hot_arr.shape[1] :
              /\ Cardinality(OnesInRow(n)) = 1
              /\ \A k \in 1..TheCall.t_hot_arr.shape[2] : Mask(n, k) \in {Zero, One}
        /\ Cardinality({x \in 1..Size(TheCall.t_hot_arr.shape) :
                            heap[TheCall.t_hot_arr.buf][x] = One})
             = TheCall.label_arr.shape[1]

C2_Witness ==
    /\ MaskBuilt
    /\ TheCall.t_hot_arr.shape[1] >= 2
    /\ TheCall.t_hot_arr.shape[2] >= 2
    /\ Mask(1, 1) = One /\ Mask(2, 2) = One

AssignedNaN(n, d) == IsNaN(Delta(n, Label(n) + 1, d))

\* C3 as stated: where the assigned cluster's entry is NaN, the encoder
\* delta is NaN.
C3_AsStated ==
    (Returned /\ SameShapes) =>
        \A n \in 1..DShape[1], d \in 1..DShape[3] : AssignedNaN(n, d) => IsNaN(Enc(n, d))

\* The squares of the other clusters' entries for sample n and feature d are
\* all NaN or infinite: their masked squares 0 * x are all NaN.
OthersUndefined(n, d) ==
    \A k \in 1..DShape[2] :
        k # Label(n) + 1 => ~IsFinite(FMul(Delta(n, k, d), Delta(n, k, d)))

\* C3, amended: where the assigned cluster's entry is NaN, the encoder delta
\* is NaN if the square of every other cluster's entry for that sample and
\* feature is NaN or infinite (so whenever K = 1), and weight * 0 otherwise.
C3_NaNOnlyIfAllUndefined ==
    (Returned /\ SameShapes) =>
        \A n \in 1..DShape[1], d \in 1..DShape[3] :
            AssignedNaN(n, d) =>
                Enc(n, d) = IF OthersUndefined(n, d) THEN NaN
                            ELSE FMul(Zero, weight[TheCall.self])

C3_Witness ==
    /\ Returned /\ SameShapes
    /\ DShape[2] >= 2
    /\ AssignedNaN(1, 1)
    /\ ~OthersUndefined(1, 1)
    /\ Enc(1, 1) = Zero

\* The entries of the masked squares of sample n and feature d that are not
\* NaN: the assigned cluster's, and 0 for each other cluster whose entry is
\* finite.
Counted(n, d) ==
    {k \in 1..DShape[2] :
        IF k = Label(n) + 1 THEN ~IsNaN(Delta(n, k, d))
        ELSE IsFinite(FMul(Delta(n, k, d), Delta(n, k, d)))}

AssignedFiniteOtherNaN(n, d) ==
    /\ IsFinite(Delta(n, Label(n) + 1, d))
    /\ \E k \in 1..DShape[2] : k # Label(n) + 1 /\ IsNaN(Delta(n, k, d))

LabelOutOfRange == \E n \in 1..TheCall.label_arr.shape[1] : Label(n) >= DShape[2]

Unbroadcastable == QShape[1] # DShape[1] /\ QShape[1] # 1 /\ DShape[1] # 1

\* C5 as stated: whenever the arrays disagree on N, K or D the call raises
\* and returns no delta.
C5_AsStated == (AtEnd /\ ~SameShapes) => TheCall.pc = "raised"

\* What the call does about shapes: it validates none.  It raises IndexError when a
\* sample's label is not below delta_arr's cluster count, ValueError when
\* q_arr's and delta_arr's sample counts differ and neither is 1, and in
\* every other case, whatever the arrays' shapes, returns (E, None, None)
\* with E of max(N of q_arr, N of delta_arr) x D, the mask or the squares
\* broadcast over the samples.
C5_RaisesOnlyOnIndexOrBroadcast ==
    AtEnd =>
        IF LabelOutOfRange THEN TheCall.pc = "raised" /\ TheCall.exc = "IndexError"
        ELSE IF Unbroadcastable THEN TheCall.pc = "raised" /\ TheCall.exc = "ValueError"
        ELSE /\ ReturnsTriple
             /\ Encoder.shape = <<IF QShape[1] > DShape[1] THEN QShape[1] ELSE DShape[1],
                                  DShape[3]>>

C5_Witness ==
    /\ Returned
    /\ QShape[1] = 1 /\ DShape[1] = 2
    /\ QShape[2] < DShape[2]
    /\ Encoder.shape[1] = 2

\* The row of sample n that argmax sees.
Reduced(n) ==
    [k \in 1..QShape[2] |->
        IF QShape[3] > 1 THEN NanMeanSeq([t \in 1..QShape[3] |-> Q(n, k, t)])
        ELSE Q(n, k, 1)]

\* A scan keeping the index of the running maximum, replaced on row[i] > it.
RECURSIVE RunningMax(_, _, _)
RunningMax(row, i, best) ==
    IF i > Len(row) THEN best - 1
    ELSE RunningMax(row, i + 1, IF FGt(row[i], row[best]) THEN i ELSE best)

\* The first index of the largest entry that is not NaN; 0 for a row of NaN.
FirstLargest(row) ==
    IF \A i \in DOMAIN row : IsNaN(row[i]) THEN 0
    ELSE (CHOOSE i \in DOMAIN row :
             /\ ~IsNaN(row[i])
             /\ \A j \in DOMAIN row : ~FGt(row[j], row[i])
             /\ \A j \in 1..(i - 1) : IsNaN(row[j]) \/ FGt(row[i], row[j])) - 1

\* l is the first index of row's maximum, the maximum read either way.
FirstMaximum(row, l) == l = RunningMax(row, 2, 1) \/ l = FirstLargest(row)

\* The first NaN of the row if it has one, else the first maximum.
FirstNaNElseLargest(row) ==
    IF \E i \in DOMAIN row : IsNaN(row[i])
    THEN (CHOOSE i \in DOMAIN row : IsNaN(row[i]) /\ \A j \in 1..(i - 1) : ~IsNaN(row[j])) - 1
    ELSE FirstLargest(row)

\* C6 as stated: every label is in [0, K) and is the smallest index at which
\* the reduced row attains its maximum.
C6_AsStated ==
    AtEnd => \A n \in 1..QShape[1] :
                /\ Label(n) \in 0..(QShape[2] - 1)
                /\ FirstMaximum(Reduced(n), Label(n))

\* C6, amended: every label is in [0, K); it is the index of the first NaN of
\* the reduced row if the row holds a NaN, and otherwise the smallest index
\* at which the row attains its maximum (0 for an all-equal or all-NaN row).
C6_FirstNaNElseFirstMax ==
    AtEnd => \A n \in 1..QShape[1] :
                /\ Label(n) \in 0..(QShape[2] - 1)
                /\ Label(n) = FirstNaNElseLargest(Reduced(n))

C6_Witness ==
    /\ AtEnd
    /\ QShape[2] = 2
    /\ ~IsNaN(Reduced(1)[1])
    /\ IsNaN(Reduced(1)[2])
    /\ Label(1) = 1

DefinedOnly(est) == SelectSeq(est, LAMBDA x : ~IsNaN(x))

\* The mean of the estimates of cell (n, k) that are not NaN.
MeanOfDefined(n, k) ==
    FDiv(SumTo(DefinedOnly([t \in 1..QShape[3] |-> Q(n, k, t)]),
               Len(DefinedOnly([t \in 1..QShape[3] |-> Q(n, k, t)]))),
         FromInt(Len(DefinedOnly([t \in 1..QShape[3] |-> Q(n, k, t)]))))

Consensus(n) ==
    [k \in 1..QShape[2] |-> IF QShape[3] > 1 THEN MeanOfDefined(n, k) ELSE Q(n, k, 1)]

\* C10 as stated: with M > 1 the label is the first-maximum index of the
\* means over the trailing axis, each cell averaged over its estimates that
\* are not NaN; with M = 1 it is the first-maximum index of q_arr[n][k][0].
C10_AsStated ==
    AtEnd => \A n \in 1..QShape[1] : FirstMaximum(Consensus(n), Label(n))

\* C10, amended: the label is the index of the first NaN, or without a NaN
\* of the first maximum, among: with M > 1 the means over the trailing axis,
\* each cell averaged over its estimates that are not NaN (NaN for a cell
\* with none), and with M = 1 the values q_arr[n][k][0] as they are.
C10_ArgmaxOfTolerantMean ==
    AtEnd => \A n \in 1..QShape[1] : Label(n) = FirstNaNElseLargest(Consensus(n))

\* Two estimates, the first of cell (1, 1) undefined: the second decides.
C10_Witness ==
    /\ AtEnd
    /\ QShape[3] = 2 /\ QShape[2] = 2
    /\ IsNaN(Q(1, 1, 1))
    /\ Consensus(1)[1] = Q(1, 1, 2)
    /\ FGt(Consensus(1)[1], Consensus(1)[2])
    /\ Label(1) = 0

ArgsOf(f) == [x \in ArgNames |-> f[x]]

\* C8: no step changes an instance's weight, and a call leaves every array
\* it was passed as it was and returns an array in a buffer that did not
\* exist when it was called.
C8_NoSideEffect ==
    [][/\ weight' = weight
       /\ (TheCall.pc = "L55" /\ Done(TheCall'))
            => /\ ArgsOf(TheCall') = ArgsOf(TheCall)
               /\ \A x \in ArgNames : heap'[TheCall[x].buf] = heap[TheCall[x].buf]
               /\ (TheCall'.pc = "returned" => TheCall'.ret[1].buf \notin DOMAIN heap)
      ]_vars

C8_Witness ==
    /\ Returned
    /\ Encoder.buf \notin {TheCall[x].buf : x \in ArgNames}
    /\ DShape = <<1, 2, 1>>
    /\ Delta(1, 1, 1) = One
    /\ IsInf(Delta(1, 2, 1))
    /\ weight[1] = Ratio(1, 8)

----------------------------------------------------------------------------
\* Linearity in the weight (SpecLin).

BothReturned ==
    /\ call[1].pc = "returned" /\ call[2].pc = "returned"
    /\ call[1].delta_arr = call[2].delta_arr
    /\ call[1].q_arr = call[2].q_arr

EncoderOf(t) == heap[call[t].ret[1].buf]

ScaledBy(c) ==
    /\ call[2].ret[1].shape = call[1].ret[1].shape
    /\ \A x \in DOMAIN EncoderOf(1) : EncoderOf(2)[x] = FMul(c, EncoderOf(1)[x])

\* C7 as stated: for any positive c, the delta of the instance constructed
\* with c * w is entry by entry exactly c times the delta of the instance
\* constructed with w.
C7_AsStated ==
    BothReturned => \A c \in Factors : weight[2] = FMul(c, weight[1]) => ScaledBy(c)

PowerOfTwo(c) == IsFinite(c) /\ c.m = Pow2(Prec - 1)

\* C7, amended: for any c that is a power of two (nothing overflowing or
\* underflowing), the delta of the instance constructed with c * w is entry
\* by entry exactly c times the delta of the instance constructed with w;
\* for another c the two differ by the rounding of the products.
C7_ExactForPowersOfTwo ==
    BothReturned =>
        \A c \in Factors : (PowerOfTwo(c) /\ weight[2] = FMul(c, weight[1])) => ScaledBy(c)

C7_Witness ==
    /\ BothReturned
    /\ weight[1] = Ratio(3, 10)
    /\ weight[2] = FMul(FromInt(2), Ratio(3, 10))
    /\ IsFinite(EncoderOf(1)[1])
    /\ EncoderOf(1)[1] # Zero
    /\ EncoderOf(2)[1] = FMul(FromInt(2), EncoderOf(1)[1])

----------------------------------------------------------------------------
\* Interleaved calls (SpecConc).

\* What a call answered: the exception, or the tuple's arrays by value.
Outcome(r) ==
    [pc |-> r.frame.pc, exc |-> r.frame.exc,
     ret |-> [i \in DOMAIN r.frame.ret |->
                 IF r.frame.ret[i] = NoneVal THEN <<>>
                 ELSE <<r.frame.ret[i].shape, r.heap[r.frame.ret[i].buf]>>]]

\* The call of caller t run alone, from the first statement to the end, on a
\* heap of its own that holds delta_arr and q_arr as they are and an
\* arbitrary array for each of the other four.
Alone(t) ==
    RunToEnd(<<heap[call[t].delta_arr.buf], heap[call[t].q_arr.buf], <<Zero>>>>,
             weight[call[t].self],
             [IdleFrame EXCEPT !.pc = "L55", !.self = call[t].self,
                 !.delta_arr = Ref(1, call[t].delta_arr.shape),
                 !.q_arr = Ref(2, call[t].q_arr.shape),
                 !.observed_arr = Ref(3, <<1, 1>>), !.reconstructed_arr = Ref(3, <<1, 1>>),
                 !.feature_arr = Ref(3, <<1, 1>>), !.p_arr = Ref(3, <<1, 1>>)],
             {})

\* C9: however the two callers' statements interleave, whatever calls came
\* before and whatever the four unused arrays hold, a finished call has
\* answered what it answers when run alone on its delta_arr and q_arr with
\* the instance's weight.
C9_AsIfAlone ==
    \A t \in DOMAIN call :
        Done(call[t]) => Outcome([heap |-> heap, frame |-> call[t]]) = Outcome(Alone(t))

\* Caller 2 has returned from a call that began and ended while caller 1 was
\* in the middle of a call on the same delta_arr.
C9_Witness ==
    /\ call[2].pc = "returned"
    /\ call[1].pc = "L60"
    /\ call[1].delta_arr = call[2].delta_arr
    /\ call[1].q_arr # call[2].q_arr
    /\ call[1].observed_arr # call[2].observed_arr
    /\ call[1].label_arr.buf < call[2].label_arr.buf
    /\ call[2].label_arr.buf < call[1].t_hot_arr.buf

====
